---- MODULE Spec2Model ----
(***************************************************************************)
(* A model of movepick.h: the statistics tables (Stats<T, CM> and          *)
(* FromToStats) and the staged move picker (MovePicker, Stages).           *)
(*                                                                         *)
(* The tables are modelled from movepick.h, which holds all their code.    *)
(* One table object is modelled at a time: `kind' says which instantiation *)
(* it is.  The table objects of the program do not refer to one another.   *)
(*                                                                         *)
(* Of the picker movepick.h holds the stages, the fields with their        *)
(* initial values and the table of generators.  The bodies of the          *)
(* constructors, of next_move(), of score() and of generate_next_stage()   *)
(* are in movepick.cpp; they are modelled from the design document.        *)
(***************************************************************************)
EXTENDS Integers, Sequences, FiniteSets, TLC

abs(x) == IF x < 0 THEN -x ELSE x

VARIABLES
    kind,       \* which table type the object is
    table,      \* Stats::table / FromToStats::table, a function of the key
    cleared,    \* history: clear() has been called on the object
    fresh,      \* history: the keys not passed to update() since the last clear()
    last,       \* history: the last call and what it did to the keyed entry
    nops,       \* number of calls made so far
    \* the fields of a MovePicker
    pos,              \* the position (what the picker asks of it)
    countermove,
    depth,
    ttMove,
    killers,
    recaptureSquare,
    threshold,
    stage,
    endBadCaptures,
    moves,
    cur,
    endMoves,
    hashMove,         \* history: the hash move the constructor was given
    firstStage,       \* history: the stage the constructor set
    returned,         \* history: the moves next_move() returned, with the stage
    sentinels,        \* history: how often next_move() returned MOVE_NONE
    visited           \* history: the stages the picker has been in, in order

statsVars == <<kind, table, cleared, fresh, last, nops>>

pickerVars == <<pos, countermove, depth, ttMove, killers, recaptureSquare, threshold,
                stage, endBadCaptures, moves, cur, endMoves,
                hashMove, firstStage, returned, sentinels, visited>>

vars == <<statsVars, pickerVars>>

-----------------------------------------------------------------------------
(* Bounds of the model *)

\* calls made on one table object
MaxOps == 3

\* the part of the key space and of the input space that is explored
Pieces == {1, 2}
Squares == {0, 1}
Colors == {0, 1}

\* observed values: both boundaries of the clip, the largest accepted
\* magnitudes, the two values of the documented scenario, and an outlier
Values == {-324, -323, -50, 100, 323, 324, 400}

\* what an object's memory may hold before the first clear()
Garbage == {0, -1, 1073741824}

-----------------------------------------------------------------------------
(* C++ int arithmetic *)

INT_MAX == 2147483647

\* a * b leaves the range of int
MulOverflows(a, b) == b # 0 /\ (IF a < 0 THEN -(a + 1) ELSE a) > INT_MAX \div abs(b)

\* a + b leaves the range of int
AddOverflows(a, b) ==
    \/ b > 0 /\ a > INT_MAX - b
    \/ b < 0 /\ a < (-INT_MAX - 1) - b

\* (mutant) the quotient rounded toward minus infinity
IntDiv_floor(a, b) == a \div b

\* int / int, b > 0: the quotient truncated toward zero
IntDiv(a, b) == IF a >= 0 THEN a \div b ELSE -((-a) \div b)

\* What an entry may hold after a signed overflow, which is undefined
\* behaviour: any int; these stand for them.
UBOutcomes == {-INT_MAX, 0, INT_MAX}

-----------------------------------------------------------------------------
(* Move encoding used by FromToStats (types.h) *)

make_move(from, to) == from * 64 + to
from_sq(m) == (m \div 64) % 64
to_sq(m) == m % 64

MOVE_NONE == 0

\* the moves given to FromToStats and to the move table
TableMoves == {make_move(0, 1), make_move(1, 0), make_move(1, 1)}

-----------------------------------------------------------------------------
(* Stats<T, CM> *)

Max == 268435456

Kinds == {"MoveStats", "HistoryStats", "CounterMoveStats", "FromToStats"}

\* the template parameter CM of the instantiation
CM(k) == k = "CounterMoveStats"

StatsKeys == Pieces \X Squares
FromToKeys == Colors \X Squares \X Squares
KeysOf(k) == IF k = "FromToStats" THEN FromToKeys ELSE StatsKeys

\* const T* operator[](Piece pc) const, then [to]
Stats_get(t, pc, to) == t[<<pc, to>>]

\* Value get(Color c, Move m) const
FromToStats_get(t, c, m) == t[<<c, from_sq(m), to_sq(m)>>]

\* (mutant) a memset of the first row only
Stats_clear_first_row(t) == [k \in DOMAIN t |-> IF k[1] = 1 THEN 0 ELSE t[k]]

\* memset(table, 0, sizeof(table))
Stats_clear_table(t) == [k \in DOMAIN t |-> 0]

FromToStats_clear_table(t) == [k \in DOMAIN t |-> 0]

\* (mutant) the boundary value accepted
Stats_rejects_above(v) == abs(v) > 324

\* if (abs(int(v)) >= 324) return;
Stats_rejects(v) == abs(v) >= 324

FromToStats_rejects(v) == abs(v) >= 324

\* (mutant) the product taken with the observed value, not its magnitude
Stats_product_signed(stored, v) == stored * v

\* table[pc][to] * abs(int(v))
Stats_product(stored, v) == stored * abs(v)

\* (mutant) the product multiplied by the divisor instead of divided by it,
\* held at 2 * Max where the multiplication would leave the range of int
Stats_decay_times(stored, v, cm) ==
    LET p == Stats_product(stored, v)
        d == IF cm THEN 936 ELSE 324
    IN  IF MulOverflows(p, d) THEN (IF p < 0 THEN -2 * Max ELSE 2 * Max) ELSE p * d

\* table[pc][to] * abs(int(v)) / (CM ? 936 : 324)
Stats_decay(stored, v, cm) == IntDiv(Stats_product(stored, v), IF cm THEN 936 ELSE 324)

\* (mutant) a gain of 33
Stats_gain_33(v) == v * 33

\* int(v) * 32
Stats_gain(v) == v * 32

FromToStats_product(stored, v) == stored * abs(v)

\* table[c][f][t] * abs(int(v)) / 324
FromToStats_decay(stored, v) == IntDiv(FromToStats_product(stored, v), 324)

FromToStats_gain(v) == v * 32

\* The two statements of an accepted update, on the entry's value: the value
\* between them (mid) and the value after them (new).  ub: a product or a
\* sum left the range of int, and the entry may then hold anything.
Stats_update_entry(stored, v, cm) ==
    IF MulOverflows(stored, abs(v))
      THEN {[mid |-> x, new |-> x, ub |-> TRUE] : x \in UBOutcomes}
      ELSE LET mid == stored - Stats_decay(stored, v, cm)
           IN  IF AddOverflows(mid, Stats_gain(v))
                 THEN {[mid |-> mid, new |-> x, ub |-> TRUE] : x \in UBOutcomes}
                 ELSE {[mid |-> mid, new |-> mid + Stats_gain(v), ub |-> FALSE]}

FromToStats_update_entry(stored, v) ==
    IF MulOverflows(stored, abs(v))
      THEN {[mid |-> x, new |-> x, ub |-> TRUE] : x \in UBOutcomes}
      ELSE LET mid == stored - FromToStats_decay(stored, v)
           IN  IF AddOverflows(mid, FromToStats_gain(v))
                 THEN {[mid |-> mid, new |-> x, ub |-> TRUE] : x \in UBOutcomes}
                 ELSE {[mid |-> mid, new |-> mid + FromToStats_gain(v), ub |-> FALSE]}

\* The record of a call: the entry it was given, the observed value (or
\* move), the entry's value before the call, between the two statements of
\* an accepted update, and after the call; ub: the call overflowed int.
Call(op, key, v, before, mid, after, u) ==
    [op |-> op, key |-> key, v |-> v, before |-> before, mid |-> mid,
     after |-> after, ub |-> u]

\* how many entries of t are not zero (recorded by a clear() call as `before')
NonZero(t) == Cardinality({k \in DOMAIN t : t[k] # 0})

NoCall == Call("none", <<>>, 0, 0, 0, 0, FALSE)

\* a read of table[pc][to] through operator[] of a const table
Stats_read(pc, to) ==
    /\ kind # "FromToStats"
    /\ LET x == Stats_get(table, pc, to)
       IN  last' = Call("read", <<pc, to>>, 0, table[<<pc, to>>], x, x, FALSE)
    /\ UNCHANGED <<kind, table, cleared, fresh>>

\* a call of get(c, m)
FromToStats_read(c, m) ==
    /\ kind = "FromToStats"
    /\ LET k == <<c, from_sq(m), to_sq(m)>>
           x == FromToStats_get(table, c, m)
       IN  last' = Call("read", k, 0, table[k], x, x, FALSE)
    /\ UNCHANGED <<kind, table, cleared, fresh>>

\* void clear()
Stats_clear ==
    /\ kind # "FromToStats"
    /\ table' = Stats_clear_table(table)
    /\ cleared' = TRUE
    /\ fresh' = DOMAIN table
    /\ last' = Call("clear", <<>>, 0, NonZero(table), 0, 0, FALSE)
    /\ UNCHANGED kind

\* (mutant) the move stored in every entry of the piece's row
Stats_update_Move_row(pc, to, m) ==
    /\ kind = "MoveStats"
    /\ table' = [k \in DOMAIN table |-> IF k[1] = pc THEN m ELSE table[k]]
    /\ fresh' = fresh \ {<<pc, to>>}
    /\ last' = Call("update", <<pc, to>>, m, table[<<pc, to>>], m, m, FALSE)
    /\ UNCHANGED <<kind, cleared>>

\* void update(Piece pc, Square to, Move m)
Stats_update_Move(pc, to, m) ==
    /\ kind = "MoveStats"
    /\ table' = [table EXCEPT ![<<pc, to>>] = m]
    /\ fresh' = fresh \ {<<pc, to>>}
    /\ last' = Call("update", <<pc, to>>, m, table[<<pc, to>>], m, m, FALSE)
    /\ UNCHANGED <<kind, cleared>>

\* void update(Piece pc, Square to, Value v)
Stats_update_Value(pc, to, v) ==
    /\ kind \in {"HistoryStats", "CounterMoveStats"}
    /\ LET old == table[<<pc, to>>]
       IN  /\ fresh' = fresh \ {<<pc, to>>}
           /\ IF Stats_rejects(v)
                THEN /\ table' = table
                     /\ last' = Call("update", <<pc, to>>, v, old, old, old, FALSE)
                ELSE \E r \in Stats_update_entry(old, v, CM(kind)) :
                     /\ table' = [table EXCEPT ![<<pc, to>>] = r.new]
                     /\ last' = Call("update", <<pc, to>>, v, old, r.mid, r.new, r.ub)
    /\ UNCHANGED <<kind, cleared>>

\* void FromToStats::clear()
FromToStats_clear ==
    /\ kind = "FromToStats"
    /\ table' = FromToStats_clear_table(table)
    /\ cleared' = TRUE
    /\ fresh' = DOMAIN table
    /\ last' = Call("clear", <<>>, 0, NonZero(table), 0, 0, FALSE)
    /\ UNCHANGED kind

\* void FromToStats::update(Color c, Move m, Value v)
FromToStats_update(c, m, v) ==
    /\ kind = "FromToStats"
    /\ LET f   == from_sq(m)
           t   == to_sq(m)
           old == table[<<c, f, t>>]
       IN  /\ fresh' = fresh \ {<<c, f, t>>}
           /\ IF FromToStats_rejects(v)
                THEN /\ table' = table
                     /\ last' = Call("update", <<c, f, t>>, v, old, old, old, FALSE)
                ELSE \E r \in FromToStats_update_entry(old, v) :
                     /\ table' = [table EXCEPT ![<<c, f, t>>] = r.new]
                     /\ last' = Call("update", <<c, f, t>>, v, old, r.mid, r.new, r.ub)
    /\ UNCHANGED <<kind, cleared>>

-----------------------------------------------------------------------------
(* Stages *)

MAIN_SEARCH == 0
GOOD_CAPTURES == 1
KILLERS == 2
QUIET == 3
BAD_CAPTURES == 4
EVASION == 5
ALL_EVASIONS == 6
QSEARCH_WITH_CHECKS == 7
QCAPTURES_1 == 8
CHECKS == 9
QSEARCH_WITHOUT_CHECKS == 10
QCAPTURES_2 == 11
PROBCUT == 12
PROBCUT_CAPTURES == 13
RECAPTURE == 14
RECAPTURES == 15
STOP == 16
STAGE_NB == STOP + 1

\* the stages a constructor may start a picker in
FirstStages ==
    {MAIN_SEARCH, EVASION, QSEARCH_WITH_CHECKS, QSEARCH_WITHOUT_CHECKS, PROBCUT, RECAPTURE}

\* the last stage of each family of stages
LastStages ==
    {BAD_CAPTURES, ALL_EVASIONS, CHECKS, QCAPTURES_2, PROBCUT_CAPTURES, RECAPTURES}

\* (mutants) the table with one entry naming the generator of another stage
generators_main_as_evasion == [s \in 0 .. STOP |-> IF s = MAIN_SEARCH THEN EVASION ELSE s]
generators_quiet_as_probcut == [s \in 0 .. STOP |-> IF s = QUIET THEN PROBCUT ELSE s]
generators_killers_as_evasion == [s \in 0 .. STOP |-> IF s = KILLERS THEN EVASION ELSE s]
generators_recapture_as_probcut == [s \in 0 .. STOP |-> IF s = RECAPTURE THEN PROBCUT ELSE s]
generators_evasion_as_probcut == [s \in 0 .. STOP |-> IF s = EVASION THEN PROBCUT ELSE s]
generators_probcut_as_recapture == [s \in 0 .. STOP |-> IF s = PROBCUT THEN RECAPTURE ELSE s]
generators_with_as_without_checks ==
    [s \in 0 .. STOP |-> IF s = QSEARCH_WITH_CHECKS THEN QSEARCH_WITHOUT_CHECKS ELSE s]
generators_good_captures_as_killers ==
    [s \in 0 .. STOP |-> IF s = GOOD_CAPTURES THEN KILLERS ELSE s]
generators_quiet_as_bad_captures == [s \in 0 .. STOP |-> IF s = QUIET THEN BAD_CAPTURES ELSE s]

\* generators[s] is generate_next_stage<s>
generators == [s \in 0 .. STOP |-> s]

-----------------------------------------------------------------------------
(* The position and the move generator, as far as the picker asks *)

\* size of the picker's move buffer
MAX_MOVES == 6

\* next_move() calls explored after the first that returned MOVE_NONE
MaxSentinels == 2

\* the moves of the model: three that capture and two that do not
CaptureMoves == {make_move(1, 3), make_move(2, 3), make_move(2, 4)}
QuietMoves == {make_move(1, 5), make_move(2, 6)}
AllMoves == CaptureMoves \cup QuietMoves

\* the sets of pseudo-legal moves explored: all, some, one capture, one
\* quiet move, none
LegalSets ==
    { AllMoves,
      AllMoves \ {make_move(1, 3), make_move(1, 5)},
      {make_move(2, 3)},
      {make_move(2, 6)},
      {} }

\* the scores explored, for the moves in the order (1,3) (2,3) (2,4) (1,5) (2,6)
ScoreOf(a, b, c, d, e) ==
    (make_move(1, 3) :> a) @@ (make_move(2, 3) :> b) @@ (make_move(2, 4) :> c)
        @@ (make_move(1, 5) :> d) @@ (make_move(2, 6) :> e)

Scores ==
    { ScoreOf(2, 1, 1, 0, 1), ScoreOf(1, 2, 2, 1, 0), ScoreOf(1, 1, 1, 0, 0),
      ScoreOf(1, 2, 3, 0, 1), ScoreOf(3, 2, 1, 1, 0), ScoreOf(2, 3, 1, 1, 1) }

\* A position: whether the side to move is in check, its pseudo-legal moves,
\* the captures the exchange evaluation judges losing, the score that
\* score() gives each move, and the quiet moves that give check.
Position(inCheck, legal, losing, score, checking) ==
    [checkers |-> inCheck, legal |-> legal, losing |-> losing, score |-> score,
     checking |-> checking]

pseudo_legal(p, m) == m \in p.legal
capture(p, m) == m \in CaptureMoves
see(p, m) == IF m \in p.losing THEN -1 ELSE 1
see_sign(p, m) == see(p, m)

\* the moves of a set, in the order the generator lists them
RECURSIVE SeqOf(_)
SeqOf(S) ==
    IF S = {} THEN <<>>
    ELSE LET m == CHOOSE x \in S : \A y \in S : x <= y
         IN  <<m>> \o SeqOf(S \ {m})

\* generate<CAPTURES>, generate<QUIETS>, generate<EVASIONS>, generate<QUIET_CHECKS>
generate_CAPTURES(p) == SeqOf(p.legal \cap CaptureMoves)
generate_QUIETS(p) == SeqOf(p.legal \cap QuietMoves)
generate_EVASIONS(p) == SeqOf(p.legal)
generate_QUIET_CHECKS(p) == SeqOf(p.legal \cap p.checking)

-----------------------------------------------------------------------------
(* MovePicker: fields and helpers *)

ExtMove(m, v) == [move |-> m, value |-> v]

\* a buffer slot that nothing was written to
Unwritten == ExtMove(-1, 0)

\* pointers: into moves[] or into killers[]
InMoves(i) == <<"moves", i>>
InKillers(i) == <<"killers", i>>

\* ExtMove *cur = moves, *endMoves = moves
InitialCur == InMoves(0)
InitialEndMoves == InMoves(0)

\* (mutant) the deferred list started at the front of the buffer
InitialEndBadCaptures_front == InMoves(0)

\* ExtMove* endBadCaptures = moves + MAX_MOVES - 1
InitialEndBadCaptures == InMoves(MAX_MOVES - 1)

\* ExtMove* begin() { return moves; }   ExtMove* end() { return endMoves; }
begin(mp) == InMoves(0)
end(mp) == mp.endMoves

\* the picker as a record of its fields
Picker ==
    [pos |-> pos, countermove |-> countermove, depth |-> depth, ttMove |-> ttMove,
     killers |-> killers, recaptureSquare |-> recaptureSquare, threshold |-> threshold,
     stage |-> stage, endBadCaptures |-> endBadCaptures, moves |-> moves,
     cur |-> cur, endMoves |-> endMoves, visited |-> visited]

\* *ptr
Deref(mp, ptr) == IF ptr[1] = "moves" THEN mp.moves[ptr[2]] ELSE mp.killers[ptr[2]]

\* ptr + n
Plus(ptr, n) == <<ptr[1], ptr[2] + n>>

\* the generated moves, scored, written to the front of the buffer
WriteFront(mp, ms) ==
    [i \in DOMAIN mp.moves |->
        IF i < Len(ms) THEN ExtMove(ms[i + 1], mp.pos.score[ms[i + 1]]) ELSE mp.moves[i]]

\* the index in lo .. hi - 1 of the first slot with the greatest value
BestIndex(buf, lo, hi) ==
    CHOOSE i \in lo .. hi - 1 :
        /\ \A j \in lo .. hi - 1 : buf[j].value <= buf[i].value
        /\ \A j \in lo .. i - 1 : buf[j].value < buf[i].value

\* (mutant) no search for the best: the slot at the front as it is
pick_best_first(buf, lo, hi) == buf

\* pick_best(begin, end): the best remaining slot swapped to the front
pick_best(buf, lo, hi) ==
    LET b == BestIndex(buf, lo, hi)
    IN  [buf EXCEPT ![lo] = buf[b], ![b] = buf[lo]]

\* the slots lo .. hi - 1 in descending order of value
RECURSIVE sort_descending(_, _, _)
sort_descending(buf, lo, hi) ==
    IF lo >= hi THEN buf
    ELSE LET b == BestIndex(buf, lo, hi)
             \* the best moved to the front, those before it shifted up by one
             shifted == [i \in DOMAIN buf |->
                            IF i = lo THEN buf[b]
                            ELSE IF i > lo /\ i <= b THEN buf[i - 1]
                            ELSE buf[i]]
         IN  sort_descending(shifted, lo + 1, hi)

-----------------------------------------------------------------------------
(* MovePicker: construction *)

\* the table object beside a picker: a cleared HistoryStats
TableIdle ==
    /\ kind = "HistoryStats"
    /\ table = [k \in StatsKeys |-> 0]
    /\ cleared = TRUE
    /\ fresh = StatsKeys
    /\ last = Call("clear", <<>>, 0, 0, 0, 0, FALSE)
    /\ nops = 0

\* What the three constructors share: the hash move is kept if it is
\* pseudo-legal, and is then the one move staged; the cursors and the buffer
\* are as the member initialisers leave them.
Construct(p, ttm, first, ks, cm, sq, th, d) ==
    /\ pos = p
    /\ ttMove = (IF ttm # MOVE_NONE /\ pseudo_legal(p, ttm) THEN ttm ELSE MOVE_NONE)
    /\ stage = first
    /\ killers = [i \in 0 .. 2 |-> ExtMove(IF i < 2 THEN ks[i + 1] ELSE cm, 0)]
    /\ countermove = cm
    /\ recaptureSquare = sq
    /\ threshold = th
    /\ depth = d
    /\ moves = [i \in 0 .. MAX_MOVES - 1 |-> Unwritten]
    /\ cur = InitialCur
    /\ endMoves = Plus(InitialEndMoves, IF ttMove # MOVE_NONE THEN 1 ELSE 0)
    /\ endBadCaptures = InitialEndBadCaptures
    /\ hashMove = ttm
    /\ firstStage = first
    /\ returned = <<>>
    /\ sentinels = 0
    /\ visited = <<first>>

\* the killer and countermove slots a search stack may hold
KillerMoves == {MOVE_NONE, make_move(1, 3), make_move(1, 5), make_move(2, 6)}
QuietKillerMoves == {MOVE_NONE, make_move(1, 5), make_move(2, 6)}

\* MovePicker(const Position&, Move, Depth, Search::Stack*): main search, or
\* evasion when the side to move is in check
MovePicker_Search ==
    \E legal \in LegalSets, score \in Scores, ttm \in AllMoves \cup {MOVE_NONE} :
        \/ \E losing \in SUBSET CaptureMoves,
              k0 \in KillerMoves, k1 \in QuietKillerMoves, cm \in QuietKillerMoves :
                Construct(Position(FALSE, legal, losing, score, {}), ttm, MAIN_SEARCH,
                          <<k0, k1>>, cm, 0, 0, 1)
        \/ Construct(Position(TRUE, legal, {}, score, {}), ttm, EVASION,
                     <<MOVE_NONE, MOVE_NONE>>, MOVE_NONE, 0, 0, 1)

\* MovePicker(const Position&, Move, Value): quiescence with or without
\* checks, or ProbCut with a threshold
MovePicker_Value ==
    \E legal \in LegalSets, score \in Scores, ttm \in AllMoves \cup {MOVE_NONE} :
        \/ \E checking \in SUBSET QuietMoves :
                Construct(Position(FALSE, legal, {}, score, checking), ttm,
                          QSEARCH_WITH_CHECKS, <<MOVE_NONE, MOVE_NONE>>, MOVE_NONE, 0, 0, 0)
        \/ Construct(Position(FALSE, legal, {}, score, {}), ttm,
                     QSEARCH_WITHOUT_CHECKS, <<MOVE_NONE, MOVE_NONE>>, MOVE_NONE, 0, 0, 0)
        \/ \E losing \in SUBSET CaptureMoves, th \in {-2, 0, 1} :
                Construct(Position(FALSE, legal, losing, score, {}), ttm,
                          PROBCUT, <<MOVE_NONE, MOVE_NONE>>, MOVE_NONE, 0, th, 0)

\* MovePicker(const Position&, Move, Depth, Square): recaptures on one square
MovePicker_Square ==
    \E legal \in LegalSets, score \in Scores, ttm \in AllMoves \cup {MOVE_NONE},
       sq \in {3, 4} :
        Construct(Position(FALSE, legal, {}, score, {}), ttm, RECAPTURE,
                  <<MOVE_NONE, MOVE_NONE>>, MOVE_NONE, sq, 0, 0)

PickerInit ==
    /\ TableIdle
    /\ (MovePicker_Search \/ MovePicker_Value \/ MovePicker_Square)

\* no picker: what the fields are while only a table is exercised
NoPicker ==
    Construct(Position(FALSE, {}, {}, ScoreOf(0, 0, 0, 0, 0), {}), MOVE_NONE, STOP,
              <<MOVE_NONE, MOVE_NONE>>, MOVE_NONE, 0, 0, 0)

-----------------------------------------------------------------------------
(* MovePicker: generate_next_stage() *)

\* the stage after s: the next of the enumeration inside a family, STOP
\* after the last stage of a family
NextStage(s) == IF s \in LastStages \cup {STOP} THEN STOP ELSE s + 1

\* a new batch: the moves ms, scored, at the front of the buffer
Staged(mp, n, ms) ==
    [mp EXCEPT !.stage = n, !.moves = WriteFront(mp, ms), !.cur = begin(mp),
               !.endMoves = Plus(begin(mp), Len(ms))]

\* generate_next_stage<S>(): leaves stage S and prepares the batch of the
\* stage that follows it
generate_next_stage(S, mp) ==
    LET n == NextStage(S)
    IN  CASE n \in {GOOD_CAPTURES, QCAPTURES_1, QCAPTURES_2, PROBCUT_CAPTURES, RECAPTURES} ->
               Staged(mp, n, generate_CAPTURES(mp.pos))
          [] n = KILLERS ->
               [mp EXCEPT !.stage = n, !.cur = InKillers(0), !.endMoves = InKillers(3)]
          [] n = QUIET ->
               LET g == Staged(mp, n, generate_QUIETS(mp.pos))
               IN  [g EXCEPT !.moves = sort_descending(g.moves, g.cur[2], end(g)[2])]
          [] n = BAD_CAPTURES ->
               [mp EXCEPT !.stage = n, !.cur = InMoves(MAX_MOVES - 1),
                          !.endMoves = mp.endBadCaptures]
          [] n = ALL_EVASIONS ->
               Staged(mp, n, generate_EVASIONS(mp.pos))
          [] n = CHECKS ->
               Staged(mp, n, generate_QUIET_CHECKS(mp.pos))
          [] OTHER ->
               [mp EXCEPT !.stage = STOP]

\* (this->*generators[stage])(); the stage it leaves the picker in is recorded
dispatch(mp) ==
    LET g == generate_next_stage(generators[mp.stage], mp)
    IN  [g EXCEPT !.visited = Append(mp.visited, g.stage)]

-----------------------------------------------------------------------------
(* MovePicker: next_move() *)

\* what one pass of the switch in next_move() gives: the picker, the move,
\* and whether the move is returned (otherwise the loop goes on)
Pass(mp, m, ret) == [mp |-> mp, move |-> m, returns |-> ret]

\* the current batch is used up and there is a stage to go to
NeedsNextStage(mp) == mp.cur = mp.endMoves /\ mp.stage # STOP

\* the first stage of a family: the hash move
Case_first(mp) == Pass([mp EXCEPT !.cur = Plus(mp.cur, 1)], mp.ttMove, TRUE)

\* the best of the rest of the batch, taken
Picked(mp) ==
    LET buf == pick_best(mp.moves, mp.cur[2], mp.endMoves[2])
    IN  [mp EXCEPT !.moves = buf, !.cur = Plus(mp.cur, 1)]

Case_GOOD_CAPTURES(mp) ==
    LET t == Picked(mp)
        m == Deref(t, mp.cur).move
    IN  IF m = mp.ttMove THEN Pass(t, m, FALSE)
        ELSE IF see_sign(mp.pos, m) >= 0 THEN Pass(t, m, TRUE)
        ELSE \* a losing capture: moved to the tail of the buffer
             Pass([t EXCEPT !.moves[t.endBadCaptures[2]] = Deref(t, mp.cur),
                            !.endBadCaptures = Plus(t.endBadCaptures, -1)], m, FALSE)

\* the move was tried from an earlier killer slot
EarlierSlot(mp, i, m) == \E j \in 0 .. i - 1 : mp.killers[j].move = m

Case_KILLERS(mp) ==
    LET m == Deref(mp, mp.cur).move
        t == [mp EXCEPT !.cur = Plus(mp.cur, 1)]
    IN  Pass(t, m, /\ m # MOVE_NONE
                   /\ m # mp.ttMove
                   /\ pseudo_legal(mp.pos, m)
                   /\ ~capture(mp.pos, m)
                   /\ ~EarlierSlot(mp, mp.cur[2], m))

Case_QUIET(mp) ==
    LET m == Deref(mp, mp.cur).move
        t == [mp EXCEPT !.cur = Plus(mp.cur, 1)]
    IN  Pass(t, m, /\ m # mp.ttMove
                   /\ \A i \in 0 .. 2 : m # mp.killers[i].move)

\* return *cur--
Case_BAD_CAPTURES(mp) ==
    Pass([mp EXCEPT !.cur = Plus(mp.cur, -1)], Deref(mp, mp.cur).move, TRUE)

\* ALL_EVASIONS, QCAPTURES_1, QCAPTURES_2
Case_best(mp) ==
    LET t == Picked(mp)
        m == Deref(t, mp.cur).move
    IN  Pass(t, m, m # mp.ttMove)

Case_PROBCUT_CAPTURES(mp) ==
    LET t == Picked(mp)
        m == Deref(t, mp.cur).move
    IN  Pass(t, m, m # mp.ttMove /\ see(mp.pos, m) > mp.threshold)

Case_RECAPTURES(mp) ==
    LET t == Picked(mp)
        m == Deref(t, mp.cur).move
    IN  Pass(t, m, m # mp.ttMove /\ to_sq(m) = mp.recaptureSquare)

Case_CHECKS(mp) ==
    LET m == Deref(mp, mp.cur).move
    IN  Pass([mp EXCEPT !.cur = Plus(mp.cur, 1)], m, m # mp.ttMove)

\* (mutant) the slot under the cursor returned at STOP
Case_STOP_slot(mp) == Pass(mp, Deref(mp, mp.cur).move, TRUE)

Case_STOP(mp) == Pass(mp, MOVE_NONE, TRUE)

\* switch (stage)
Switch(mp) ==
    CASE mp.stage \in FirstStages -> Case_first(mp)
      [] mp.stage = GOOD_CAPTURES -> Case_GOOD_CAPTURES(mp)
      [] mp.stage = KILLERS -> Case_KILLERS(mp)
      [] mp.stage = QUIET -> Case_QUIET(mp)
      [] mp.stage = BAD_CAPTURES -> Case_BAD_CAPTURES(mp)
      [] mp.stage \in {ALL_EVASIONS, QCAPTURES_1, QCAPTURES_2} -> Case_best(mp)
      [] mp.stage = PROBCUT_CAPTURES -> Case_PROBCUT_CAPTURES(mp)
      [] mp.stage = RECAPTURES -> Case_RECAPTURES(mp)
      [] mp.stage = CHECKS -> Case_CHECKS(mp)
      [] OTHER -> Case_STOP(mp)

\* Move next_move(): the loop, up to the return
RECURSIVE next_move(_)
next_move(mp) ==
    IF NeedsNextStage(mp) THEN next_move(dispatch(mp))
    ELSE LET r == Switch(mp)
         IN  IF r.returns THEN r ELSE next_move(r.mp)

\* a call of next_move() by the search
NextMove ==
    /\ sentinels < MaxSentinels
    /\ Len(returned) < MAX_MOVES + 4
    /\ LET r == next_move(Picker)
       IN  /\ stage' = r.mp.stage
           /\ cur' = r.mp.cur
           /\ endMoves' = r.mp.endMoves
           /\ endBadCaptures' = r.mp.endBadCaptures
           /\ moves' = r.mp.moves
           /\ visited' = r.mp.visited
           /\ IF r.move = MOVE_NONE
                THEN /\ sentinels' = sentinels + 1
                     /\ returned' = returned
                ELSE /\ sentinels' = sentinels
                     /\ returned' = Append(returned, [move |-> r.move, stage |-> r.mp.stage])
    /\ UNCHANGED <<pos, countermove, depth, ttMove, killers, recaptureSquare, threshold,
                   hashMove, firstStage>>
    /\ UNCHANGED statsVars

PickerNext == NextMove

SpecPicker == PickerInit /\ [][PickerNext]_vars

-----------------------------------------------------------------------------
(* The tables under at most MaxOps calls, of any kind, on any key *)

\* An object as constructed: neither struct has a constructor, so the table
\* holds whatever its memory held.
StatsInit ==
    /\ NoPicker
    /\ kind \in Kinds
    /\ \E g \in Garbage : table = [k \in KeysOf(kind) |-> g]
    /\ cleared = FALSE
    /\ fresh = {}
    /\ last = NoCall
    /\ nops = 0

ClearCall ==
    /\ nops < MaxOps
    /\ UNCHANGED pickerVars
    /\ Stats_clear
    /\ nops' = nops + 1

FromToClearCall ==
    /\ nops < MaxOps
    /\ UNCHANGED pickerVars
    /\ FromToStats_clear
    /\ nops' = nops + 1

MoveUpdateCall ==
    /\ nops < MaxOps
    /\ UNCHANGED pickerVars
    /\ \E pc \in Pieces, to \in Squares, m \in TableMoves \cup {MOVE_NONE} :
         Stats_update_Move(pc, to, m)
    /\ nops' = nops + 1

ValueUpdateCall ==
    /\ nops < MaxOps
    /\ UNCHANGED pickerVars
    /\ \E pc \in Pieces, to \in Squares, v \in Values :
         Stats_update_Value(pc, to, v)
    /\ nops' = nops + 1

FromToUpdateCall ==
    /\ nops < MaxOps
    /\ UNCHANGED pickerVars
    /\ \E c \in Colors, m \in TableMoves, v \in Values :
         FromToStats_update(c, m, v)
    /\ nops' = nops + 1

ReadCall ==
    /\ nops < MaxOps
    /\ UNCHANGED pickerVars
    /\ \E pc \in Pieces, to \in Squares : Stats_read(pc, to)
    /\ nops' = nops + 1

FromToReadCall ==
    /\ nops < MaxOps
    /\ UNCHANGED pickerVars
    /\ \E c \in Colors, m \in TableMoves : FromToStats_read(c, m)
    /\ nops' = nops + 1

StatsNext ==
    \/ ClearCall
    \/ FromToClearCall
    \/ MoveUpdateCall
    \/ ValueUpdateCall
    \/ FromToUpdateCall
    \/ ReadCall
    \/ FromToReadCall

SpecStats == StatsInit /\ [][StatsNext]_vars

-----------------------------------------------------------------------------
(* One entry of a cleared score table under update sequences of any length *)

\* the entry that is updated: (piece, to), and (colour, move) for FromToStats
LongKey == <<2, 1>>
LongMove == make_move(1, 0)

\* the object after construction and its first clear()
LongInit ==
    /\ kind \in {"HistoryStats", "CounterMoveStats", "FromToStats"}
    /\ table = [k \in KeysOf(kind) |-> 0]
    /\ cleared = TRUE
    /\ fresh = KeysOf(kind)
    /\ last = Call("clear", <<>>, 0, 0, 0, 0, FALSE)
    /\ nops = 1
    /\ NoPicker

LongValueUpdate ==
    /\ \E v \in Values : Stats_update_Value(LongKey[1], LongKey[2], v)
    /\ UNCHANGED <<nops, pickerVars>>

LongFromToUpdate ==
    /\ \E v \in Values : FromToStats_update(LongKey[2], LongMove, v)
    /\ UNCHANGED <<nops, pickerVars>>

LongNext ==
    \/ LongValueUpdate
    \/ LongFromToUpdate

SpecStatsLong == LongInit /\ [][LongNext]_vars

-----------------------------------------------------------------------------
(* One update call on an entry that holds any value within 32 * divisor *)

\* 32 times the divisor of the decay of a table of kind k
EntryBound(k) == 32 * (IF CM(k) THEN 936 ELSE 324)

\* the stored values explored: those at both ends of the range, those around
\* zero, the two of the documented scenario, and a grid over the range
StepStored(k) ==
    {s \in -EntryBound(k) .. EntryBound(k) :
        \/ abs(s) >= EntryBound(k) - 2
        \/ abs(s) <= 2
        \/ abs(s) \in {1107, 3200}
        \/ abs(s) % 97 = 0}

\* the observed values explored: all that are accepted, and the two nearest
\* that are not
StepValues == -324 .. 324

\* the key of the entry
StepKey(k) ==
    IF k = "FromToStats" THEN <<LongKey[2], from_sq(LongMove), to_sq(LongMove)>> ELSE LongKey

\* a score table some time after its clear(), with no call recorded
StepInit ==
    /\ kind \in {"HistoryStats", "CounterMoveStats", "FromToStats"}
    /\ \E s \in StepStored(kind) :
          table = [k \in KeysOf(kind) |-> IF k = StepKey(kind) THEN s ELSE 0]
    /\ cleared = TRUE
    /\ fresh = KeysOf(kind) \ {StepKey(kind)}
    /\ last = NoCall
    /\ nops = 0
    /\ NoPicker

StepValueUpdate ==
    /\ last = NoCall
    /\ \E v \in StepValues : Stats_update_Value(LongKey[1], LongKey[2], v)
    /\ UNCHANGED <<nops, pickerVars>>

StepFromToUpdate ==
    /\ last = NoCall
    /\ \E v \in StepValues : FromToStats_update(LongKey[2], LongMove, v)
    /\ UNCHANGED <<nops, pickerVars>>

StepNext ==
    \/ StepValueUpdate
    \/ StepFromToUpdate

SpecStatsStep == StepInit /\ [][StepNext]_vars

-----------------------------------------------------------------------------
(* Properties of the statistics tables *)

\* the divisor of the table's decay
Divisor == IF kind = "CounterMoveStats" THEN 936 ELSE 324

\* a read of the entry with key k, through the table's reading operation
ReadEntry(k) ==
    IF kind = "FromToStats"
      THEN FromToStats_get(table, k[1], make_move(k[2], k[3]))
      ELSE Stats_get(table, k[1], k[2])

\* q is a / d truncated toward zero: the remainder is smaller than d in
\* magnitude and, unless it is zero, has the sign of a
IsTruncatedQuotient(a, d, q) ==
    LET r == a - q * d
    IN  abs(r) < d /\ (r = 0 \/ ((r > 0) <=> (a > 0)))

\* C1: in a score table that was cleared and then given update calls with
\* any observed values, in any number, every stored entry stays within Max
\* in magnitude, and so does the value an entry holds between the decay
\* step and the additive step of an update; no step overflows.
C1_Bounded ==
    (cleared /\ kind # "MoveStats") =>
        /\ \A k \in DOMAIN table : abs(ReadEntry(k)) <= Max
        /\ abs(last.mid) <= Max
        /\ ~last.ub

\* C1 witness: a CounterMoveStats entry driven to -29952 by repeated updates
\* with -323, and a further such update leaving it there.
C1_Witness ==
    /\ kind = "CounterMoveStats"
    /\ last.op = "update" /\ last.v = -323
    /\ last.before = -29952 /\ last.after = -29952
    /\ ReadEntry(last.key) = -29952

\* C2: an accepted update (|v| < 324) that does not overflow leaves in the
\* keyed entry stored - q + 32 * v, where q is stored * |v| / D truncated
\* toward zero, D = 936 for CounterMoveStats and 324 otherwise; from a cleared
\* entry update(100) gives 3200, and update(-50) on 3200 in a table with
\* divisor 324 gives 1107.
C2_UpdateFormula ==
    (last.op = "update" /\ kind # "MoveStats" /\ abs(last.v) < 324 /\ ~last.ub) =>
        /\ IsTruncatedQuotient(last.before * abs(last.v), Divisor, last.before - last.mid)
        /\ last.after = last.mid + 32 * last.v
        /\ ReadEntry(last.key) = last.after
        /\ (last.before = 0 /\ last.v = 100) => last.after = 3200
        /\ (last.before = 3200 /\ last.v = -50 /\ Divisor = 324) => last.after = 1107

\* C2 witness: the documented scenario, clear(), update(k, 100), update(k, -50)
\* on a HistoryStats.
C2_Witness ==
    /\ kind = "HistoryStats" /\ cleared
    /\ last.op = "update" /\ last.v = -50
    /\ last.before = 3200 /\ last.after = 1107

\* C3: an update of a score table with |v| >= 324 changes no entry of the
\* table (the code has no way to signal an error: the call just returns).
C3_RejectedIsNoOp ==
    [][(nops' = nops + 1 /\ last'.op = "update" /\ kind # "MoveStats"
          /\ abs(last'.v) >= 324) => table' = table]_vars

\* C3 witness: update(k, -324), the boundary, on a FromToStats entry that
\* held 3200, which it still holds.
C3_Witness ==
    /\ kind = "FromToStats"
    /\ last.op = "update" /\ last.v = -324
    /\ last.before = 3200 /\ ReadEntry(last.key) = 3200

\* C4: every key that was not passed to update() since the table's last
\* clear() reads as zero (MOVE_NONE in a move table).
C4_ClearedReadsZero == \A k \in fresh : ReadEntry(k) = 0

\* C4 witness: a clear() of a table with entries that were not zero, after
\* two other calls.
C4_Witness ==
    /\ last.op = "clear" /\ last.before > 0 /\ nops = 3
    /\ fresh = KeysOf(kind)

-----------------------------------------------------------------------------
(* Properties of the move picker *)

Returned == 1 .. Len(returned)

\* the i-th returned move is a capture the exchange evaluation judges losing
LosingAt(i) == returned[i].move \in pos.losing

\* C5: once the stage is STOP, every further next_move() call returns
\* MOVE_NONE, returns no move, and leaves the stage at STOP.
C5_StopAbsorbing ==
    [][stage = STOP => (stage' = STOP /\ returned' = returned /\ sentinels' = sentinels + 1)]_vars

\* C5 witness: a picker that returned moves, reached STOP, and was called
\* twice more.
C5_Witness == stage = STOP /\ sentinels >= 2 /\ Len(returned) >= 3

\* C6: the moves one picker has returned are pairwise distinct.
C6_NoDuplicates ==
    \A i, j \in Returned : i # j => returned[i].move # returned[j].move

\* C6 witness: a consumed main-search picker whose hash move is a capture of
\* the captures batch and whose three killer slots all hold one quiet move
\* of the quiets batch; all five moves were returned.
C6_Witness ==
    /\ firstStage = MAIN_SEARCH /\ stage = STOP
    /\ ttMove \in CaptureMoves
    /\ killers[0].move \in QuietMoves \cap pos.legal
    /\ killers[1].move = killers[0].move /\ killers[2].move = killers[0].move
    /\ Len(returned) = 5

\* C7: in a picker of the search constructor on a position not in check, a
\* pseudo-legal hash move is what the first next_move() call returns; with
\* no hash move, or one that is not pseudo-legal, no move is returned in
\* stage MAIN_SEARCH, and the first move returned, if any, is returned in
\* GOOD_CAPTURES (and is then a generated capture) or a later stage of the
\* main search.
C7_HashMoveFirst ==
    firstStage = MAIN_SEARCH =>
        /\ (hashMove # MOVE_NONE /\ pseudo_legal(pos, hashMove)
                /\ (returned # <<>> \/ sentinels > 0)) =>
              /\ returned # <<>>
              /\ returned[1] = [move |-> hashMove, stage |-> MAIN_SEARCH]
        /\ (hashMove = MOVE_NONE \/ ~pseudo_legal(pos, hashMove)) =>
              /\ \A i \in Returned : returned[i].stage # MAIN_SEARCH
              /\ returned # <<>> =>
                    /\ returned[1].stage \in {GOOD_CAPTURES, KILLERS, QUIET, BAD_CAPTURES}
                    /\ returned[1].stage = GOOD_CAPTURES =>
                          returned[1].move \in pos.legal \cap CaptureMoves

\* C7 witness: a hash move that is not pseudo-legal, and a first returned
\* move from the captures batch.
C7_Witness ==
    /\ firstStage = MAIN_SEARCH
    /\ hashMove # MOVE_NONE /\ ~pseudo_legal(pos, hashMove)
    /\ returned # <<>> /\ returned[1].stage = GOOD_CAPTURES

\* C8 as stated: in a main-search picker every losing capture that is
\* returned is returned in stage BAD_CAPTURES, and every returned quiet move
\* precedes every returned losing capture.
C8_AsStated ==
    firstStage = MAIN_SEARCH =>
        /\ \A i \in Returned : LosingAt(i) => returned[i].stage = BAD_CAPTURES
        /\ \A i, j \in Returned :
              (returned[i].move \in QuietMoves /\ LosingAt(j)) => i < j

\* C8 (amended): in a main-search picker a losing capture other than the
\* hash move is returned only in stage BAD_CAPTURES, after every returned
\* quiet move; the hash move, losing capture or not, is returned first, in
\* stage MAIN_SEARCH.
C8_LosingCapturesLast ==
    firstStage = MAIN_SEARCH =>
        /\ \A i \in Returned :
              IF returned[i].move = ttMove
                THEN i = 1 /\ returned[i].stage = MAIN_SEARCH
                ELSE LosingAt(i) <=> returned[i].stage = BAD_CAPTURES
        /\ \A i, j \in Returned :
              (returned[i].move \in QuietMoves /\ LosingAt(j) /\ returned[j].move # ttMove)
                  => i < j

\* C8 witness: a consumed picker that returned a losing capture as the hash
\* move, then a quiet move, then another losing capture in BAD_CAPTURES.
C8_Witness ==
    /\ firstStage = MAIN_SEARCH /\ stage = STOP
    /\ returned # <<>> /\ returned[1].move = ttMove /\ LosingAt(1)
    /\ \E i, j \in Returned :
          /\ returned[i].move \in QuietMoves
          /\ returned[j].stage = BAD_CAPTURES /\ LosingAt(j)
          /\ i < j

\* C9: the moves returned in stage GOOD_CAPTURES are in non-increasing
\* order of the score that score() gave them.
C9_GoodCapturesSorted ==
    \A i, j \in Returned :
        (i < j /\ returned[i].stage = GOOD_CAPTURES /\ returned[j].stage = GOOD_CAPTURES)
            => pos.score[returned[i].move] >= pos.score[returned[j].move]

\* C9 witness: three captures returned in GOOD_CAPTURES, the first of them
\* generated last and scored strictly highest.
C9_Witness ==
    /\ Len(returned) >= 3
    /\ \A i \in 1 .. 3 : returned[i].stage = GOOD_CAPTURES
    /\ returned[1].move > returned[2].move /\ returned[1].move > returned[3].move
    /\ pos.score[returned[1].move] > pos.score[returned[2].move]

\* C10: every next_move() call comes back, with a move not returned before
\* or, at STOP, with MOVE_NONE; MOVE_NONE is returned at STOP only; no more
\* moves are returned than the position has pseudo-legal moves (at most
\* MAX_MOVES), so that at most that many calls and one more reach STOP and
\* the sentinel; and the stage never decreases.
C10_Terminates ==
    /\ [](/\ Len(returned) <= Cardinality(pos.legal)
          /\ Cardinality(pos.legal) <= MAX_MOVES
          /\ sentinels > 0 => stage = STOP)
    /\ [][/\ stage' >= stage
          /\ stage' # STOP => Len(returned') = Len(returned) + 1
          /\ sentinels' # sentinels => stage' = STOP]_vars

\* C10 witness: a main-search picker that returned five moves, reached STOP
\* and returned MOVE_NONE.
C10_Witness ==
    /\ firstStage = MAIN_SEARCH /\ stage = STOP /\ sentinels > 0
    /\ Len(returned) = 5

Left(i) == visited[i]
Entered(i) == visited[i + 1]
Advances == 1 .. Len(visited) - 1

\* C12 as stated: every change of stage out of a stage S leads to S + 1.
C12_AsStated == \A i \in Advances : Entered(i) = Left(i) + 1

\* C12 (amended): every change of stage out of a stage S leads to S + 1 when
\* S is not the last stage of its family, and to STOP when it is (out of
\* BAD_CAPTURES, ALL_EVASIONS, CHECKS, QCAPTURES_2, PROBCUT_CAPTURES and
\* RECAPTURES); the stage does not change otherwise.
C12_NextInFamily ==
    /\ stage = visited[Len(visited)]
    /\ \A i \in Advances :
          /\ Left(i) # STOP
          /\ Entered(i) = (IF Left(i) \in LastStages THEN STOP ELSE Left(i) + 1)

\* C12 witness: a main-search picker that returned a deferred capture in
\* BAD_CAPTURES and then went from BAD_CAPTURES to STOP.
C12_Witness ==
    /\ \E i \in Advances : Left(i) = BAD_CAPTURES /\ Entered(i) = STOP
    /\ \E i \in Returned : returned[i].stage = BAD_CAPTURES

\* the stages of the family that starts with stage s, in order
Family(s) ==
    CASE s = MAIN_SEARCH -> <<MAIN_SEARCH, GOOD_CAPTURES, KILLERS, QUIET, BAD_CAPTURES, STOP>>
      [] s = EVASION -> <<EVASION, ALL_EVASIONS, STOP>>
      [] s = QSEARCH_WITH_CHECKS -> <<QSEARCH_WITH_CHECKS, QCAPTURES_1, CHECKS, STOP>>
      [] s = QSEARCH_WITHOUT_CHECKS -> <<QSEARCH_WITHOUT_CHECKS, QCAPTURES_2, STOP>>
      [] s = PROBCUT -> <<PROBCUT, PROBCUT_CAPTURES, STOP>>
      [] s = RECAPTURE -> <<RECAPTURE, RECAPTURES, STOP>>

\* C13: the stages a picker has been in are the stages of the family of its
\* first stage, in the family's order and from its start, each once; every
\* move is returned in a stage of that family; and a picker that returned
\* MOVE_NONE has been through the whole family, STOP included.
C13_StaysInFamily ==
    LET f == Family(firstStage)
    IN  /\ Len(visited) <= Len(f)
        /\ \A i \in 1 .. Len(visited) : visited[i] = f[i]
        /\ \A i \in Returned : \E j \in 1 .. Len(f) - 1 : returned[i].stage = f[j]
        /\ sentinels > 0 => visited = f

\* C13 witness: a quiescence picker with checks that returned a capture in
\* QCAPTURES_1 and a checking move in CHECKS, and then MOVE_NONE.
C13_Witness ==
    /\ firstStage = QSEARCH_WITH_CHECKS /\ sentinels > 0
    /\ \E i, j \in Returned :
          returned[i].stage = QCAPTURES_1 /\ returned[j].stage = CHECKS

\* the slots of moves[] that hold deferred captures
Deferred == (endBadCaptures[2] + 1) .. (MAX_MOVES - 1)

\* endBadCaptures points to a slot of moves[]
EndBadCapturesInBuffer ==
    endBadCaptures[1] = "moves" /\ endBadCaptures[2] \in 0 .. MAX_MOVES - 1

\* the front list ends before the first deferred capture
FrontBelowDeferred == endMoves[1] = "moves" /\ endMoves[2] <= endBadCaptures[2] + 1

Eligible(i) ==
    LET m == killers[i].move
    IN  /\ m # MOVE_NONE /\ m # ttMove
        /\ pseudo_legal(pos, m) /\ ~capture(pos, m)
        /\ \A j \in 0 .. i - 1 : killers[j].move # m

\* the moves of the eligible slots among the first n, in the order of the slots
EligibleKillers(n) ==
    LET e(i) == IF i < n /\ Eligible(i) THEN <<killers[i].move>> ELSE <<>>
    IN  e(0) \o e(1) \o e(2)

\* the moves returned in stage KILLERS, in the order they were returned
RECURSIVE KillersOf(_)
KillersOf(rs) ==
    IF rs = <<>> THEN <<>>
    ELSE (IF Head(rs).stage = KILLERS THEN <<Head(rs).move>> ELSE <<>>) \o KillersOf(Tail(rs))

\* C15: a killer or countermove slot that holds no move, the hash move, a
\* move that is not pseudo-legal, a capture, or the move of an earlier slot
\* (a countermove equal to a killer) is passed over without being returned
\* and without a change of stage: while the stage is KILLERS the moves
\* returned in it are those of the eligible slots before the cursor, the
\* last of them from the slot just before the cursor, whatever the slots
\* before it held; and once the stage is QUIET or later, the moves returned
\* in KILLERS are those of all eligible slots among the three.
C15_KillersSkipped ==
    firstStage = MAIN_SEARCH =>
        CASE stage \in {MAIN_SEARCH, GOOD_CAPTURES} -> KillersOf(returned) = <<>>
          [] stage = KILLERS ->
               /\ cur[1] = "killers" /\ cur[2] \in 1 .. 3
               /\ Eligible(cur[2] - 1)
               /\ KillersOf(returned) = EligibleKillers(cur[2])
          [] OTHER -> KillersOf(returned) = EligibleKillers(3)

\* C15 witness: the first killer is not pseudo-legal, the second is, and
\* the countermove equals the second; the second killer alone was returned
\* in KILLERS, and the picker has gone on to QUIET.
C15_Witness ==
    /\ firstStage = MAIN_SEARCH
    /\ killers[0].move # MOVE_NONE /\ ~pseudo_legal(pos, killers[0].move)
    /\ Eligible(1) /\ killers[2].move = killers[1].move
    /\ KillersOf(returned) = <<killers[1].move>>
    /\ \E i \in 1 .. Len(visited) : visited[i] = QUIET

\* the moves of a generated list
Elements(ms) == {ms[i] : i \in 1 .. Len(ms)}

\* what the generator produces for the picker's family of stages
Generated ==
    IF firstStage = MAIN_SEARCH
      THEN Elements(generate_CAPTURES(pos)) \cup Elements(generate_QUIETS(pos))
      ELSE Elements(generate_EVASIONS(pos))

\* C18: a main-search picker and an evasion picker that have returned
\* MOVE_NONE have returned every move the generator produces for them
\* (captures and quiet moves; evasions), each exactly once, and nothing else.
C18_Complete ==
    (firstStage \in {MAIN_SEARCH, EVASION} /\ (stage = STOP \/ sentinels > 0)) =>
        /\ {returned[i].move : i \in Returned} = Generated
        /\ Len(returned) = Cardinality(Generated)

\* C18 witness: a consumed main-search picker that returned a move in each
\* of its five stages: the hash move, a good capture, a killer, a quiet
\* move and a deferred capture.
C18_Witness ==
    /\ firstStage = MAIN_SEARCH /\ sentinels > 0
    /\ \A st \in MAIN_SEARCH .. BAD_CAPTURES : \E i \in Returned : returned[i].stage = st

\* C17: an update call changes no entry but the one its key addresses,
\* (piece, to) in Stats and (colour, from, to) in FromToStats; an update of
\* a move table leaves the move it was given in that entry, whatever the
\* entry held; a read changes no entry and yields what the entry holds.
C17_Frame ==
    [][nops' = nops + 1 =>
        /\ last'.op = "update" =>
              /\ last'.key \in DOMAIN table
              /\ \A k \in DOMAIN table \ {last'.key} : table'[k] = table[k]
              /\ kind = "MoveStats" => table'[last'.key] = last'.v
        /\ last'.op = "read" => (table' = table /\ last'.after = table[last'.key])]_vars

\* C17 witness: a move table with two different moves in one piece's row,
\* the second written by the last call over a move that was there.
C17_Witness ==
    /\ kind = "MoveStats"
    /\ last.op = "update" /\ last.before \in TableMoves /\ last.before # last.v
    /\ ReadEntry(last.key) = last.v
    /\ \E k \in DOMAIN table :
          k # last.key /\ k[1] = last.key[1] /\ table[k] \in TableMoves \ {last.v}

\* C16: an accepted update (|v| < 324) of an entry that holds a value within
\* 32 * D in magnitude (10368 for HistoryStats and FromToStats, 29952 for
\* CounterMoveStats) leaves the entry within 32 * D; the product
\* stored * |v| is within the range of int, and no step overflows.
C16_InductiveBound ==
    /\ EntryBound("HistoryStats") = 10368 /\ EntryBound("FromToStats") = 10368
    /\ EntryBound("CounterMoveStats") = 29952
    /\ abs(ReadEntry(StepKey(kind))) <= EntryBound(kind)
    /\ (last.op = "update" /\ abs(last.v) < 324) =>
          /\ abs(last.before) <= EntryBound(kind)
          /\ ~MulOverflows(last.before, abs(last.v))
          /\ ~last.ub
          /\ abs(last.mid) <= EntryBound(kind)
          /\ abs(last.after) <= EntryBound(kind)
          /\ ReadEntry(last.key) = last.after

\* C16 witness: a CounterMoveStats entry at its bound, 29952, updated with
\* the largest accepted value and left at the bound.
C16_Witness ==
    /\ kind = "CounterMoveStats"
    /\ last.op = "update" /\ last.v = 323
    /\ last.before = 29952 /\ ReadEntry(last.key) = 29952

\* C19: when an accepted update with v has taken an entry from s to t, the
\* update with -v takes an entry that holds -s to -t, and the value between
\* its two statements is the negation as well; it does not overflow.
C19_SignSymmetry ==
    (last.op = "update" /\ abs(last.v) < 324) =>
        LET mirror == IF kind = "FromToStats"
                        THEN FromToStats_update_entry(-last.before, -last.v)
                        ELSE Stats_update_entry(-last.before, -last.v, CM(kind))
        IN  mirror = {[mid |-> -last.mid, new |-> -last.after, ub |-> FALSE]}

\* C19 witness: the mirror image of the documented scenario: an entry of a
\* HistoryStats that held -3200, updated with 50, holds -1107.
C19_Witness ==
    /\ kind = "HistoryStats"
    /\ last.op = "update" /\ last.v = 50
    /\ last.before = -3200 /\ ReadEntry(last.key) = -1107

====
